---- MODULE Spec2Model ----
(***************************************************************************)
(* Model of ironic/drivers/modules/ilo/inspect.py: the iLO hardware        *)
(* inspection workflow (IloInspect.inspect_hardware) and its helpers.      *)
(*                                                                         *)
(* Python strings that the code splits, lower-cases or formats are         *)
(* modelled as sequences of one-character strings, so that split(), join() *)
(* and 'Port %s' are computed rather than assumed.  Python values whose    *)
(* type the code tests (dict / list / str / int / None) are tagged records.*)
(***************************************************************************)
EXTENDS Integers, Sequences, FiniteSets, TLC

VARIABLES
  pc,               \* position of inspect_hardware (or of a helper call)
  power,            \* power state of the machine as the actuator sees it
  power_turned_on,  \* local flag of inspect_hardware
  driver_info,      \* node.driver_info (keys are plain strings)
  node_properties,  \* node.properties, the in-memory object
  db_properties,    \* node.properties as last persisted by node.save()
  result,           \* value returned by get_essential_properties
  macs_input_given, \* dict computed by _get_macs_for_desired_ports
  remaining,        \* labels of macs_input_given the loop has not visited
  ports,            \* MAC addresses that have a port in the store
  capabilities,     \* local of inspect_hardware: answer of the capability query
  calls,            \* log of the collaborator calls made by the run
  outcome,          \* what the run (or helper call) returned or raised
  start             \* node properties and port store when the run began

vars == <<pc, power, power_turned_on, driver_info, node_properties,
          db_properties, result, macs_input_given, remaining, ports,
          capabilities, calls, outcome, start>>

----------------------------------------------------------------------------
(* Bounds of the model *)

NumPorts == 2      \* the controller reports labels "Port 1" .. "Port NumPorts"
MaxSelection == 2  \* port numbers listed in one selection expression

----------------------------------------------------------------------------
(* Python values *)

None == [ty |-> "none"]
PyDict(f) == [ty |-> "dict", d |-> f]
PyList(s) == [ty |-> "list", l |-> s]
PyStr(s) == [ty |-> "str", s |-> s]
PyInt(n) == [ty |-> "int", i |-> n]

EmptyDict == [k \in {} |-> None]

\* a truth test for which an empty mapping counts as present
Truthy_empty_dict(v) ==
  CASE v.ty = "none" -> FALSE
    [] v.ty = "dict" -> TRUE
    [] v.ty = "list" -> Len(v.l) > 0
    [] v.ty = "str" -> Len(v.s) > 0
    [] v.ty = "int" -> v.i # 0

\* bool(v)
Truthy(v) ==
  CASE v.ty = "none" -> FALSE
    [] v.ty = "dict" -> DOMAIN v.d # {}
    [] v.ty = "list" -> Len(v.l) > 0
    [] v.ty = "str" -> Len(v.s) > 0
    [] v.ty = "int" -> v.i # 0

\* isinstance(v, dict)
IsDict(v) == v.ty = "dict"

\* d.get(k) on a mapping whose values are tagged values
Get(d, k) == IF k \in DOMAIN d THEN d[k] ELSE None

\* d1.update(d2)
Update(d1, d2) ==
  [k \in (DOMAIN d1) \cup (DOMAIN d2) |-> IF k \in DOMAIN d2 THEN d2[k] ELSE d1[k]]

\* the iteration of a Python value: the set of items a for-loop would see
IterItems(v) ==
  CASE v.ty = "dict" -> DOMAIN v.d
    [] v.ty = "list" -> {v.l[i] : i \in 1..Len(v.l)}
    [] v.ty = "str" -> {<<v.s[i]>> : i \in 1..Len(v.s)}
    [] OTHER -> {}

IsIterable(v) == v.ty \in {"dict", "list", "str"}

\* what a call returns or raises
Return(v) == [status |-> "returned", exc |-> "", msg |-> "", detail |-> <<>>, value |-> v]
Raise(e, m, d) == [status |-> "raised", exc |-> e, msg |-> m, detail |-> d, value |-> None]
Running == [status |-> "running", exc |-> "", msg |-> "", detail |-> <<>>, value |-> None]

----------------------------------------------------------------------------
(* Python string operations on sequences of characters *)

UpperCase == <<"A","B","C","D","E","F","G","H","I","J","K","L","M",
               "N","O","P","Q","R","S","T","U","V","W","X","Y","Z">>
LowerCase == <<"a","b","c","d","e","f","g","h","i","j","k","l","m",
               "n","o","p","q","r","s","t","u","v","w","x","y","z">>

\* str.lower()
lower(s) ==
  [i \in 1..Len(s) |->
     IF \E j \in 1..26 : UpperCase[j] = s[i]
     THEN LowerCase[CHOOSE j \in 1..26 : UpperCase[j] = s[i]]
     ELSE s[i]]

FirstIndex(s, sep) == CHOOSE i \in 1..Len(s) : s[i] = sep /\ \A j \in 1..(i-1) : s[j] # sep

\* str.split(sep)
RECURSIVE split(_, _)
split(s, sep) ==
  IF \A i \in 1..Len(s) : s[i] # sep
  THEN <<s>>
  ELSE LET i == FirstIndex(s, sep)
       IN <<SubSeq(s, 1, i-1)>> \o split(SubSeq(s, i+1, Len(s)), sep)

\* str.split(sep, 1)
split1(s, sep) ==
  IF \A i \in 1..Len(s) : s[i] # sep
  THEN <<s>>
  ELSE LET i == FirstIndex(s, sep)
       IN <<SubSeq(s, 1, i-1), SubSeq(s, i+1, Len(s))>>

\* sep.join(list)
RECURSIVE join(_, _)
join(sep, list) ==
  IF Len(list) = 0 THEN <<>>
  ELSE IF Len(list) = 1 THEN list[1]
  ELSE list[1] \o sep \o join(sep, Tail(list))

\* str.isdigit()
Digits == <<"0","1","2","3","4","5","6","7","8","9">>
isdigit(s) == Len(s) > 0 /\ \A i \in 1..Len(s) : \E j \in 1..10 : Digits[j] = s[i]

\* str(n) for a port number 1..9
DigitStr(n) == <<Digits[n + 1]>>

\* the orders in which a dict with key set S may be iterated
RECURSIVE Orders(_)
Orders(S) ==
  IF S = {} THEN {<<>>}
  ELSE UNION {{<<k>> \o o : o \in Orders(S \ {k})} : k \in S}

----------------------------------------------------------------------------
(* Module constants *)

ESSENTIAL_PROPERTIES_KEYS == {"memory_mb", "local_gb", "cpus", "cpu_arch"}

K_BootMode == <<"B","o","o","t","M","o","d","e">>
K_secure_boot == <<"s","e","c","u","r","e","_","b","o","o","t">>
K_rom_firmware_version == <<"r","o","m","_","f","i","r","m","w","a","r","e","_","v","e","r","s","i","o","n">>
K_ilo_firmware_version == <<"i","l","o","_","f","i","r","m","w","a","r","e","_","v","e","r","s","i","o","n">>
K_server_model == <<"s","e","r","v","e","r","_","m","o","d","e","l">>
K_max_raid_level == <<"m","a","x","_","r","a","i","d","_","l","e","v","e","l">>
K_pci_gpu_devices == <<"p","c","i","_","g","p","u","_","d","e","v","i","c","e","s">>
K_sr_iov_devices == <<"s","r","_","i","o","v","_","d","e","v","i","c","e","s">>
K_nic_capacity == <<"n","i","c","_","c","a","p","a","c","i","t","y">>

CAPABILITIES_KEYS ==
  {K_BootMode, K_secure_boot, K_rom_firmware_version, K_ilo_firmware_version,
   K_server_model, K_max_raid_level, K_pci_gpu_devices, K_sr_iov_devices,
   K_nic_capacity}

POWER_ON == "power on"
POWER_OFF == "power off"
POWER_ERROR == "error"
MANAGEABLE == "manageable"

S_all == <<"a","l","l">>
S_none == <<"n","o","n","e">>
S_None == <<"N","o","n","e">>
S_Port == <<"P","o","r","t"," ">>

----------------------------------------------------------------------------
(* _validate: the Essential-Property Validator *)

\* a check of the macs entry that lets a non-mapping through
validate_macs_any_type(data) ==
  IF Truthy(Get(data, "macs"))
  THEN Return(None)
  ELSE Raise("HardwareInspectionFailure", "didn't return 'macs' as the key", <<>>)

validate_macs(data) ==
  IF Truthy(Get(data, "macs"))
  THEN IF ~IsDict(data["macs"])
       THEN Raise("HardwareInspectionFailure", "macs not in dictionary format", data["macs"])
       ELSE Return(None)
  ELSE Raise("HardwareInspectionFailure", "didn't return 'macs' as the key", <<>>)

\* a validator that reports the first absent key only
_validate_first_missing(data) ==
  IF Truthy(Get(data, "properties"))
  THEN IF IsDict(data["properties"])
       THEN LET missing_keys == ESSENTIAL_PROPERTIES_KEYS \ DOMAIN data["properties"].d
            IN IF missing_keys # {}
               THEN Raise("HardwareInspectionFailure", "Server didn't return the key(s)",
                          {CHOOSE k \in missing_keys : TRUE})
               ELSE validate_macs(data)
       ELSE Raise("HardwareInspectionFailure", "properties not in dictionary format", data["properties"])
  ELSE Raise("HardwareInspectionFailure", "didn't return 'properties' as the key", <<>>)

_validate(data) ==
  IF Truthy(Get(data, "properties"))
  THEN IF IsDict(data["properties"])
       THEN LET valid_keys == ESSENTIAL_PROPERTIES_KEYS
                missing_keys == valid_keys \ DOMAIN data["properties"].d
            IN IF missing_keys # {}
               THEN Raise("HardwareInspectionFailure", "Server didn't return the key(s)", missing_keys)
               ELSE validate_macs(data)
       ELSE Raise("HardwareInspectionFailure", "properties not in dictionary format", data["properties"])
  ELSE Raise("HardwareInspectionFailure", "didn't return 'properties' as the key", <<>>)

----------------------------------------------------------------------------
(* _create_supported_capabilities_dict and _update_capabilities *)

\* a filter that hands every discovered name to the merger
_create_supported_capabilities_dict_unfiltered(hw_capabilities) ==
  IF ~IsIterable(hw_capabilities)
  THEN Raise("TypeError", "object is not iterable", hw_capabilities)
  ELSE IF IsDict(hw_capabilities)
       THEN Return(hw_capabilities)
       ELSE Return(PyDict(EmptyDict))

_create_supported_capabilities_dict(hw_capabilities) ==
  IF ~IsIterable(hw_capabilities)
  THEN Raise("TypeError", "object is not iterable", hw_capabilities)
  ELSE LET keys == CAPABILITIES_KEYS \cap IterItems(hw_capabilities)
       IN IF keys = {} THEN Return(PyDict(EmptyDict))
          ELSE IF IsDict(hw_capabilities)
               THEN Return(PyDict([key \in keys |-> hw_capabilities.d[key]]))
               ELSE Raise("AttributeError", "object has no attribute 'get'", hw_capabilities)

\* dict(pairs) for a list of two-element lists; a later pair wins
DictOfPairs(pairs) ==
  [k \in {pairs[i][1] : i \in 1..Len(pairs)} |->
     pairs[CHOOSE i \in 1..Len(pairs) :
             pairs[i][1] = k /\ \A j \in (i+1)..Len(pairs) : pairs[j][1] # k][2]]

\* ','.join('%(key)s:%(value)s' ...) for one iteration order of cap_dict
Serialize(cap_dict, order) ==
  join(<<",">>, [i \in 1..Len(order) |-> order[i] \o <<":">> \o cap_dict[order[i]]])

\* a merger in which an existing value wins over the discovered one
_update_capabilities_existing_wins(properties, new_capabilities) ==
  LET node_capabilities == IF "capabilities" \in DOMAIN properties
                           THEN PyStr(properties["capabilities"]) ELSE None
      tokens == split(node_capabilities.s, ",")
      pairs == [i \in 1..Len(tokens) |-> split1(tokens[i], ":")]
      malformed == Truthy(node_capabilities) /\ \E i \in 1..Len(pairs) : Len(pairs[i]) # 2
      cap_dict == IF Truthy(node_capabilities) THEN DictOfPairs(pairs) ELSE EmptyDict
  IN IF malformed
     THEN {Raise("ValueError", "unsupported format character ','", node_capabilities)}
     ELSE IF IsDict(new_capabilities)
          THEN LET merged == Update(new_capabilities.d, cap_dict)
               IN {Return(PyStr(Serialize(merged, o))) : o \in Orders(DOMAIN merged)}
          ELSE {Raise("HardwareInspectionFailure", "capabilities not a dictionary", new_capabilities)}

\* a merger that splits a token at every colon, not at the first only
_update_capabilities_split_all(properties, new_capabilities) ==
  LET node_capabilities == IF "capabilities" \in DOMAIN properties
                           THEN PyStr(properties["capabilities"]) ELSE None
      tokens == split(node_capabilities.s, ",")
      pairs == [i \in 1..Len(tokens) |-> split(tokens[i], ":")]
      malformed == Truthy(node_capabilities) /\ \E i \in 1..Len(pairs) : Len(pairs[i]) # 2
      cap_dict == IF Truthy(node_capabilities) THEN DictOfPairs(pairs) ELSE EmptyDict
  IN IF malformed
     THEN {Raise("ValueError", "unsupported format character ','", node_capabilities)}
     ELSE IF IsDict(new_capabilities)
          THEN LET merged == Update(cap_dict, new_capabilities.d)
               IN {Return(PyStr(Serialize(merged, o))) : o \in Orders(DOMAIN merged)}
          ELSE {Raise("HardwareInspectionFailure", "capabilities not a dictionary", new_capabilities)}

\* The set of outcomes: the iteration order of cap_dict is not fixed.
_update_capabilities(properties, new_capabilities) ==
  LET node_capabilities == IF "capabilities" \in DOMAIN properties
                           THEN PyStr(properties["capabilities"]) ELSE None
      tokens == split(node_capabilities.s, ",")
      pairs == [i \in 1..Len(tokens) |-> split1(tokens[i], ":")]
      malformed == Truthy(node_capabilities) /\ \E i \in 1..Len(pairs) : Len(pairs[i]) # 2
      cap_dict == IF Truthy(node_capabilities) THEN DictOfPairs(pairs) ELSE EmptyDict
  IN IF malformed
     THEN \* the message of lines 172-175 has the conversion "%(capabilities),",
          \* so building it raises ValueError before InvalidParameterValue is made
          {Raise("ValueError", "unsupported format character ','", node_capabilities)}
     ELSE IF IsDict(new_capabilities)
          THEN LET merged == Update(cap_dict, new_capabilities.d)
               IN {Return(PyStr(Serialize(merged, o))) : o \in Orders(DOMAIN merged)}
          ELSE {Raise("HardwareInspectionFailure", "capabilities not a dictionary", new_capabilities)}

----------------------------------------------------------------------------
(* _get_macs_for_desired_ports: the Port Selection Policy *)

\* str(driver_info.get('inspect_ports'))
desired_macs_of(info) ==
  IF "inspect_ports" \in DOMAIN info THEN info["inspect_ports"] ELSE S_None

\* a policy that stops at the first port it cannot find
_get_macs_first_missing(info, macs) ==
  LET desired_macs == desired_macs_of(info)
  IN IF lower(desired_macs) = S_all
     THEN Return(PyDict(macs))
     ELSE LET tokens == split(desired_macs, ",")
              desired_macs_list == [i \in 1..Len(tokens) |-> S_Port \o tokens[i]]
              found(port_number) == port_number \in DOMAIN macs /\ macs[port_number] # ""
              non_existing_ports == SelectSeq(desired_macs_list, LAMBDA p : ~found(p))
          IN IF Len(non_existing_ports) > 0
             THEN Raise("HardwareInspectionFailure", "Could not find requested ports",
                        <<non_existing_ports[1]>>)
             ELSE Return(PyDict([p \in {desired_macs_list[i] : i \in 1..Len(tokens)} |-> macs[p]]))

\* a policy that compares the selection with 'all' without lower()
_get_macs_case_sensitive(info, macs) ==
  LET desired_macs == desired_macs_of(info)
  IN IF desired_macs = S_all
     THEN Return(PyDict(macs))
     ELSE LET tokens == split(desired_macs, ",")
              desired_macs_list == [i \in 1..Len(tokens) |-> S_Port \o tokens[i]]
              found(port_number) == port_number \in DOMAIN macs /\ macs[port_number] # ""
              non_existing_ports == SelectSeq(desired_macs_list, LAMBDA p : ~found(p))
          IN IF Len(non_existing_ports) > 0
             THEN Raise("HardwareInspectionFailure", "Could not find requested ports",
                        non_existing_ports)
             ELSE Return(PyDict([p \in {desired_macs_list[i] : i \in 1..Len(tokens)} |-> macs[p]]))

_get_macs_for_desired_ports(info, macs) ==
  LET desired_macs == desired_macs_of(info)
  IN IF lower(desired_macs) = S_all
     THEN Return(PyDict(macs))
     ELSE LET tokens == split(desired_macs, ",")
              desired_macs_list == [i \in 1..Len(tokens) |-> S_Port \o tokens[i]]
              found(port_number) == port_number \in DOMAIN macs /\ macs[port_number] # ""
              non_existing_ports == SelectSeq(desired_macs_list, LAMBDA p : ~found(p))
              to_be_created_macs ==
                [p \in {desired_macs_list[i] : i \in {j \in 1..Len(tokens) : found(desired_macs_list[j])}}
                   |-> macs[p]]
          IN IF Len(non_existing_ports) > 0
             THEN Raise("HardwareInspectionFailure", "Could not find requested ports", non_existing_ports)
             ELSE Return(PyDict(to_be_created_macs))

----------------------------------------------------------------------------
(* Inputs of the workflow *)

Label(n) == S_Port \o DigitStr(n)
Labels == {Label(n) : n \in 1..NumPorts}

MacAddresses == <<"aa:aa:aa:aa:aa:aa", "bb:bb:bb:bb:bb:bb", "cc:cc:cc:cc:cc:cc",
                  "dd:dd:dd:dd:dd:dd", "ee:ee:ee:ee:ee:ee">>
MacOf(n) == MacAddresses[n]
MACS == {MacOf(n) : n \in 1..NumPorts}

\* every MAC table the controller may report over the labels
AllMacDicts == UNION {[L -> MACS] : L \in SUBSET Labels}

\* the table in which each of the ports N has its own MAC
TableOf(N) == [l \in {Label(n) : n \in N} |-> MacOf(CHOOSE n \in N : Label(n) = l)]
BothMacs == PyDict(TableOf({1, 2}))
\* two ports that report the same MAC
SameMacs == PyDict([l \in {Label(1), Label(2)} |-> MacOf(1)])
MacTables == {PyDict(TableOf(N)) : N \in SUBSET (1..NumPorts)} \cup {SameMacs}

\* selection expressions "n", "n,m", ...: port numbers 1..NumPorts+1, the
\* last of which the controller never reports
RECURSIVE NumberLists(_)
NumberLists(n) ==
  IF n = 0 THEN {<<>>}
  ELSE {<<>>} \cup {<<k>> \o l : k \in 1..(NumPorts + 1), l \in NumberLists(n - 1)}

NumericSelections ==
  {join(<<",">>, [i \in 1..Len(l) |-> DigitStr(l[i])]) : l \in NumberLists(MaxSelection) \ {<<>>}}

WordSelections == {S_all, <<"A","l","l">>, S_none, <<"N","O","N","E">>}

\* every driver_info, with and without a selection expression
DriverInfos ==
  {[k \in {"inspect_ports"} |-> s] : s \in NumericSelections \cup WordSelections}
  \cup {[k \in {} |-> <<>>]}

\* the numbers of N in increasing order
RECURSIVE Ascending(_)
Ascending(N) ==
  IF N = {} THEN <<>>
  ELSE LET least == CHOOSE n \in N : \A m \in N : n <= m
       IN <<least>> \o Ascending(N \ {least})

\* selections that list distinct port numbers in increasing order
AscendingSelections ==
  {join(<<",">>, [i \in 1..Cardinality(N) |-> DigitStr(Ascending(N)[i])]) :
     N \in {M \in SUBSET (1..(NumPorts + 1)) : Cardinality(M) \in 1..MaxSelection}}

\* the driver_info the workflow is run against
NodeDriverInfos ==
  {[k \in {"inspect_ports"} |-> s] : s \in AscendingSelections \cup WordSelections}
  \cup {[k \in {} |-> <<>>]}

ControllerProperties == [k \in ESSENTIAL_PROPERTIES_KEYS |->
  CASE k = "memory_mb" -> "4096" [] k = "local_gb" -> "100"
    [] k = "cpus" -> "8" [] k = "cpu_arch" -> "x86_64"]

OldProperties == [k \in ESSENTIAL_PROPERTIES_KEYS \cup {"other"} |->
  CASE k = "memory_mb" -> "512" [] k = "local_gb" -> "10"
    [] k = "cpus" -> "1" [] k = "cpu_arch" -> "x86" [] k = "other" -> "kept"]

Restrict(f, S) == [k \in S \cap DOMAIN f |-> f[k]]

\* properties mappings: any subset of the essential keys, with or without
\* a key the code does not know
AllPropertyDicts ==
  {Restrict(ControllerProperties, S) : S \in SUBSET ESSENTIAL_PROPERTIES_KEYS}
  \cup {Update(Restrict(ControllerProperties, S), [k \in {"extra"} |-> "zz"]) :
           S \in SUBSET ESSENTIAL_PROPERTIES_KEYS}

V_uefi == <<"u","e","f","i">>
V_bios == <<"b","i","o","s">>
K_foo == <<"f","o","o">>
V_one == <<"1">>
V_colon == <<"a", ":", "b">>
V_comma == <<"a", ",", "b">>
V_comma_pair == <<"a", ",", "c", ":", "d">>

\* node.properties['capabilities'] before the run
C_wellformed == K_BootMode \o <<":">> \o V_bios \o <<",">> \o K_foo \o <<":","x">>
C_malformed == K_BootMode \o <<":">> \o V_bios \o <<",","c">>

Absent == [ty |-> "absent"]

\* the dict returned by get_essential_properties, each key optional
MkData(p, m) ==
  [k \in (IF p = Absent THEN {} ELSE {"properties"}) \cup
         (IF m = Absent THEN {} ELSE {"macs"}) |->
     IF k = "properties" THEN p ELSE m]

PropertiesValues ==
  {Absent, None, PyList(<<"memory_mb", "local_gb", "cpus", "cpu_arch">>), PyList(<<>>),
   PyInt(5)}
  \cup {PyDict(d) : d \in AllPropertyDicts}

MacsValues ==
  {Absent, None, PyList(<<"aa:aa:aa:aa:aa:aa">>), PyInt(5)}
  \cup {PyDict(d) : d \in AllMacDicts}

\* the macs entries the workflow is run against
NodeMacsValues == {Absent, PyList(<<"aa:aa:aa:aa:aa:aa">>), PyInt(5)} \cup MacTables

\* every payload shape, for the validator on its own
AllData == {MkData(p, m) : p \in PropertiesValues, m \in MacsValues}

GoodProperties == PyDict(ControllerProperties)
ExtraProperties == PyDict(Update(ControllerProperties, [k \in {"extra"} |-> "zz"]))

\* payloads the workflow is run against: every MAC table under valid
\* properties, and one payload per way the properties can be wrong
ControllerResults ==
  {MkData(p, m) : p \in {GoodProperties, ExtraProperties}, m \in NodeMacsValues}
  \cup {MkData(p, BothMacs) :
          p \in {Absent, PyDict(EmptyDict), PyList(<<"memory_mb">>), PyInt(5),
                 PyDict(Restrict(ControllerProperties, {"memory_mb", "cpus"})),
                 PyDict([k \in {"extra"} |-> "zz"])}}

\* answers of get_server_capabilities
ControllerCapabilities ==
  {None, PyDict(EmptyDict),
   PyDict([k \in {K_BootMode} |-> V_uefi]),
   PyDict([k \in {K_BootMode, K_foo} |-> IF k = K_foo THEN <<"1">> ELSE V_uefi]),
   PyDict([k \in {K_BootMode} |-> V_comma_pair]),
   PyList(<<>>), PyList(<<K_foo>>), PyList(<<K_BootMode>>),
   PyStr(K_foo), PyInt(5)}

NodeProperties ==
  {OldProperties,
   Update(OldProperties, [k \in {"capabilities"} |-> C_wellformed]),
   Update(OldProperties, [k \in {"capabilities"} |-> C_malformed])}

----------------------------------------------------------------------------
(* IloInspect.inspect_hardware *)

\* one entry of the call log: the collaborator called, its argument and
\* "ok" or the exception it raised
Log(op, arg, res) == [op |-> op, arg |-> arg, res |-> res]

Init ==
  /\ pc = "get_power_state"
  /\ power \in {POWER_ON, POWER_OFF, POWER_ERROR}
  /\ power_turned_on = FALSE
  /\ driver_info \in NodeDriverInfos
  /\ node_properties \in NodeProperties
  /\ db_properties = node_properties
  /\ result = EmptyDict
  /\ macs_input_given = EmptyDict
  /\ remaining = {}
  /\ ports \in SUBSET MACS
  /\ capabilities = None
  /\ calls = <<>>
  /\ outcome = Running
  /\ start = [properties |-> node_properties, ports |-> ports, power |-> power]

\* a run that goes through the power-off step before it raises
Abort_restoring_power(e) ==
  pc' = (IF pc = "power_off" THEN "done" ELSE "power_off") /\ outcome' = e

\* the run ends by raising exception e
Abort(e) == pc' = "done" /\ outcome' = e

\* an answer of a collaborator that stands for "the call raised"
Raised(e) == [ty |-> e]
ResOf(answer, e) == IF answer = Raised(e) THEN e ELSE "ok"

\* a read whose failure is taken for an unknown power state
read_power_state_swallowing(answer) ==
  IF answer = Raised("IloOperationError") THEN Return(POWER_ERROR) ELSE Return(answer.state)

\* lines 335-341: get_power_state, its IloOperationError re-raised with context
read_power_state(answer) ==
  IF answer = Raised("IloOperationError")
  THEN Raise("IloOperationError", "Inspecting hardware (get_power_state)", <<>>)
  ELSE Return(answer.state)

\* a guard that powers on only a machine reported off
not_powered_on_only_off(state) == state = POWER_OFF

\* line 342
not_powered_on(state) == state # POWER_ON

\* an order that persists the node before the capability query
Successor_save_first(step) ==
  CASE step = "get_essential_properties" -> "save"
    [] step = "save" -> "get_capabilities"
    [] step = "get_capabilities" -> "select_ports"

\* an order that goes on to port registration without persisting the node
Successor_without_save(step) ==
  CASE step = "get_essential_properties" -> "get_capabilities"
    [] step = "get_capabilities" -> "select_ports"
    [] step = "save" -> "select_ports"

\* the order of the statements of lines 352-383
Successor(step) ==
  CASE step = "get_essential_properties" -> "get_capabilities"
    [] step = "get_capabilities" -> "save"
    [] step = "save" -> "select_ports"

GetPowerState ==
  /\ pc = "get_power_state"
  /\ \E answer \in {[ty |-> "state", state |-> power], Raised("IloOperationError")} :
       LET state == read_power_state(answer)
       IN /\ calls' = Append(calls, Log("get_power_state", "", ResOf(answer, "IloOperationError")))
          /\ IF state.status = "raised"
             THEN Abort(state)
             ELSE /\ pc' = IF not_powered_on(state.value)
                           THEN "power_on" ELSE "get_essential_properties"
                  /\ UNCHANGED outcome
  /\ UNCHANGED <<power, power_turned_on, driver_info, node_properties, db_properties,
                 result, macs_input_given, remaining, ports, capabilities, start>>

\* lines 343-346: power the machine on
PowerOn ==
  /\ pc = "power_on"
  /\ \/ /\ calls' = Append(calls, Log("node_power_action", POWER_ON, "PowerStateFailure"))
        /\ Abort(Raise("PowerStateFailure", "node_power_action", POWER_ON))
        /\ UNCHANGED <<power, power_turned_on>>
     \/ /\ calls' = Append(calls, Log("node_power_action", POWER_ON, "ok"))
        /\ power' = POWER_ON
        /\ power_turned_on' = TRUE
        /\ pc' = "get_essential_properties"
        /\ UNCHANGED outcome
  /\ UNCHANGED <<driver_info, node_properties, db_properties, result,
                 macs_input_given, remaining, ports, capabilities, start>>

\* _get_essential_properties, lines 79-85
_get_essential_properties(answer) ==
  IF answer = Raised("IloError")
  THEN Raise("HardwareInspectionFailure", "IloError", <<>>)
  ELSE IF _validate(answer).status = "raised" THEN _validate(answer) ELSE Return(answer)

\* a merge that copies every key the controller returned
merge_properties_every_key(props, data) == Update(props, data["properties"].d)

\* lines 353-358: node.properties after the essential keys are copied
merge_properties(props, data) ==
  LET properties == data["properties"].d
      inspected_properties ==
        [known_property \in ESSENTIAL_PROPERTIES_KEYS |-> properties[known_property]]
  IN Update(props, inspected_properties)

\* lines 351-358
GetEssentialProperties ==
  /\ pc = "get_essential_properties"
  /\ \E answer \in ControllerResults \cup {Raised("IloError")} :
       LET r == _get_essential_properties(answer)
       IN /\ calls' = Append(calls, Log("get_essential_properties", "", ResOf(answer, "IloError")))
          /\ IF r.status = "raised"
             THEN /\ Abort(r)
                  /\ result' = IF answer = Raised("IloError") THEN result ELSE answer
                  /\ UNCHANGED node_properties
             ELSE /\ result' = r.value
                  /\ node_properties' = merge_properties(node_properties, r.value)
                  /\ pc' = Successor("get_essential_properties")
                  /\ UNCHANGED outcome
  /\ UNCHANGED <<power, power_turned_on, driver_info, db_properties,
                 macs_input_given, remaining, ports, capabilities, start>>

\* a capability query whose controller error is not swallowed
_get_capabilities_propagating(answer) ==
  IF answer = Raised("IloError")
  THEN Raise("HardwareInspectionFailure", "IloError", <<>>)
  ELSE Return(answer)

\* _get_capabilities, lines 271-278
_get_capabilities(answer) ==
  IF answer = Raised("IloError") THEN Return(None) ELSE Return(answer)

\* lines 364-370
GetCapabilities ==
  /\ pc = "get_capabilities"
  /\ \E answer \in ControllerCapabilities \cup {Raised("IloError")} :
       LET got == _get_capabilities(answer)
       IN /\ calls' = Append(calls, Log("get_server_capabilities", "", ResOf(answer, "IloError")))
          /\ IF got.status = "raised"
             THEN Abort(got) /\ UNCHANGED <<node_properties, capabilities>>
             ELSE
             /\ capabilities' = got.value
             /\ IF Truthy(got.value)
                THEN LET valid_cap == _create_supported_capabilities_dict(got.value)
                     IN IF valid_cap.status = "raised"
                        THEN Abort(valid_cap) /\ UNCHANGED node_properties
                        ELSE \E merged \in _update_capabilities(node_properties, valid_cap.value) :
                               IF merged.status = "raised"
                               THEN Abort(merged) /\ UNCHANGED node_properties
                               ELSE /\ node_properties' =
                                         IF Truthy(merged.value)
                                         THEN Update(node_properties,
                                                     [k \in {"capabilities"} |-> merged.value.s])
                                         ELSE node_properties
                                    /\ pc' = Successor("get_capabilities")
                                    /\ UNCHANGED outcome
                ELSE /\ pc' = Successor("get_capabilities")
                     /\ UNCHANGED <<node_properties, outcome>>
  /\ UNCHANGED <<power, power_turned_on, driver_info, db_properties, result,
                 macs_input_given, remaining, ports, start>>

\* line 372: task.node.save()
Save ==
  /\ pc = "save"
  /\ \/ /\ calls' = Append(calls, Log("save", "", "DBError"))
        /\ Abort(Raise("DBError", "node.save", <<>>))
        /\ UNCHANGED db_properties
     \/ /\ calls' = Append(calls, Log("save", "", "ok"))
        /\ db_properties' = node_properties
        /\ pc' = Successor("save")
        /\ UNCHANGED outcome
  /\ UNCHANGED <<power, power_turned_on, driver_info, node_properties, result,
                 macs_input_given, remaining, ports, capabilities, start>>

\* a test for "none" that forgets lower()
registers_ports_case_sensitive(info) == info["inspect_ports"] # S_none

\* line 383
registers_ports(info) == lower(info["inspect_ports"]) # S_none

\* lines 382-387: decide which ports to register
SelectPorts ==
  /\ pc = "select_ports"
  /\ IF "inspect_ports" \notin DOMAIN driver_info
     THEN /\ Abort(Raise("KeyError", "inspect_ports", <<>>))
          /\ UNCHANGED <<calls, macs_input_given, remaining>>
     ELSE IF registers_ports(driver_info)
     THEN LET chosen == _get_macs_for_desired_ports(driver_info, result["macs"].d)
          IN /\ calls' = Append(calls, Log("_get_macs_for_desired_ports", "",
                                          IF chosen.status = "raised" THEN chosen.exc ELSE "ok"))
             /\ IF chosen.status = "raised"
                THEN Abort(chosen) /\ UNCHANGED <<macs_input_given, remaining>>
                ELSE /\ macs_input_given' = chosen.value.d
                     /\ remaining' = DOMAIN chosen.value.d
                     /\ pc' = IF Truthy(chosen.value) THEN "create_ports" ELSE "power_off"
                     /\ UNCHANGED outcome
     ELSE /\ pc' = "power_off"
          /\ UNCHANGED <<calls, macs_input_given, remaining, outcome>>
  /\ UNCHANGED <<power, power_turned_on, driver_info, node_properties, db_properties,
                 result, ports, capabilities, start>>

\* sql_dbapi.create_port: the store decides uniqueness, and may fail otherwise
create_port(store, mac) ==
  IF mac \in store
  THEN {Raise("MACAlreadyExists", "create_port", mac), Raise("DBError", "create_port", mac)}
  ELSE {Return(PyDict(EmptyDict)), Raise("DBError", "create_port", mac)}

\* a loop body without the except clause
is_caught_never(exc) == FALSE

\* line 59: the except clause of the loop body
is_caught(exc) == exc = "MACAlreadyExists"

\* one iteration of the loop of _create_ports_if_not_exist (lines 52-62);
\* macs.values() is visited in an order the dict decides
CreatePort ==
  /\ pc = "create_ports"
  /\ \E label \in remaining :
       LET mac == macs_input_given[label]
       IN \E created \in create_port(ports, mac) :
            /\ calls' = Append(calls, Log("create_port", mac,
                                 IF created.status = "raised" THEN created.exc ELSE "ok"))
            /\ IF created.status = "raised" /\ ~is_caught(created.exc)
               THEN Abort(created) /\ UNCHANGED <<ports, remaining>>
               ELSE /\ ports' = IF created.status = "returned" THEN ports \cup {mac} ELSE ports
                    /\ remaining' = remaining \ {label}
                    /\ pc' = IF remaining' = {} THEN "power_off" ELSE "create_ports"
                    /\ UNCHANGED outcome
  /\ UNCHANGED <<power, power_turned_on, driver_info, node_properties, db_properties,
                 result, macs_input_given, capabilities, start>>

\* lines 397-402: restore the power state and return
PowerOff ==
  /\ pc = "power_off"
  /\ IF power_turned_on
     THEN \/ /\ calls' = Append(calls, Log("node_power_action", POWER_OFF, "PowerStateFailure"))
             /\ Abort(Raise("PowerStateFailure", "node_power_action", POWER_OFF))
             /\ UNCHANGED power
          \/ /\ calls' = Append(calls, Log("node_power_action", POWER_OFF, "ok"))
             /\ power' = POWER_OFF
             /\ pc' = "done"
             /\ outcome' = Return(MANAGEABLE)
     ELSE /\ pc' = "done"
          /\ outcome' = Return(MANAGEABLE)
          /\ UNCHANGED <<calls, power>>
  /\ UNCHANGED <<power_turned_on, driver_info, node_properties, db_properties, result,
                 macs_input_given, remaining, ports, capabilities, start>>

Next ==
  \/ GetPowerState
  \/ PowerOn
  \/ GetEssentialProperties
  \/ GetCapabilities
  \/ Save
  \/ SelectPorts
  \/ CreatePort
  \/ PowerOff

Spec == Init /\ [][Next]_vars

----------------------------------------------------------------------------
(* The helpers on their own, over every input shape *)

Idle ==
  /\ power = POWER_ON
  /\ power_turned_on = FALSE
  /\ node_properties = OldProperties
  /\ db_properties = OldProperties
  /\ macs_input_given = EmptyDict
  /\ remaining = {}
  /\ ports = {}
  /\ capabilities = None
  /\ calls = <<>>
  /\ outcome = Running
  /\ start = [properties |-> OldProperties, ports |-> {}, power |-> POWER_ON]

\* _validate applied to a payload
InitValidate ==
  /\ Idle
  /\ pc = "call_validate"
  /\ driver_info = [k \in {"inspect_ports"} |-> S_all]
  /\ result \in AllData

CallValidate ==
  /\ pc = "call_validate"
  /\ outcome' = _validate(result)
  /\ pc' = "validated"
  /\ UNCHANGED <<power, power_turned_on, driver_info, node_properties, db_properties,
                 result, macs_input_given, remaining, ports, capabilities, calls, start>>

SpecValidate == InitValidate /\ [][CallValidate]_vars

\* _get_macs_for_desired_ports applied to a selection and a MAC table
InitSelect ==
  /\ Idle
  /\ pc = "call_get_macs"
  /\ driver_info \in DriverInfos
  /\ result \in {MkData(GoodProperties, PyDict(m)) : m \in AllMacDicts}

CallGetMacs ==
  /\ pc = "call_get_macs"
  /\ outcome' = _get_macs_for_desired_ports(driver_info, result["macs"].d)
  /\ pc' = "selected"
  /\ UNCHANGED <<power, power_turned_on, driver_info, node_properties, db_properties,
                 result, macs_input_given, remaining, ports, capabilities, calls, start>>

SpecSelect == InitSelect /\ [][CallGetMacs]_vars

----------------------------------------------------------------------------
(* IloInspect.validate: the Config Validator *)

MaxConfigLen == 4   \* characters in a selection expression given to validate

ConfigAlphabet == {"a", "l", "L", "n", "o", "e", "1", "2", ","}

\* every selection expression of at most MaxConfigLen characters
Selections == UNION {[1..n -> ConfigAlphabet] : n \in 0..MaxConfigLen}

\* a validator that accepts a list as soon as one token is a number
validate_any_token(info) ==
  IF "inspect_ports" \notin DOMAIN info
  THEN Raise("MissingParameterValue", "Missing 'inspect_ports' parameter", <<>>)
  ELSE LET value == info["inspect_ports"]
           tokens == split(value, ",")
       IN IF /\ lower(value) # S_all
             /\ lower(value) # S_none
             /\ ~(\E i \in 1..Len(tokens) : isdigit(tokens[i]))
          THEN Raise("InvalidParameterValue", "inspect_ports can accept all, none or numbers", value)
          ELSE Return(None)

\* lines 300-314, after parse_driver_info has accepted the credentials
validate(info) ==
  IF "inspect_ports" \notin DOMAIN info
  THEN Raise("MissingParameterValue", "Missing 'inspect_ports' parameter", <<>>)
  ELSE LET value == info["inspect_ports"]
           tokens == split(value, ",")
       IN IF /\ lower(value) # S_all
             /\ lower(value) # S_none
             /\ ~(\A i \in 1..Len(tokens) : isdigit(tokens[i]))
          THEN Raise("InvalidParameterValue", "inspect_ports can accept all, none or numbers", value)
          ELSE Return(None)

InitConfig ==
  /\ Idle
  /\ pc = "call_config_validate"
  /\ driver_info \in {EmptyDict} \cup {[k \in {"inspect_ports"} |-> s] : s \in Selections}
  /\ result = EmptyDict

CallConfigValidate ==
  /\ pc = "call_config_validate"
  /\ outcome' = validate(driver_info)
  /\ pc' = "config_validated"
  /\ UNCHANGED <<power, power_turned_on, driver_info, node_properties, db_properties,
                 result, macs_input_given, remaining, ports, capabilities, calls, start>>

SpecConfig == InitConfig /\ [][CallConfigValidate]_vars

----------------------------------------------------------------------------
(* _update_capabilities on its own: the Capability Merger *)

\* node.properties['capabilities'] as the merger may find it
ExistingCapabilities ==
  {<<>>,
   K_BootMode \o <<":">> \o V_bios,
   K_BootMode \o <<":">> \o V_bios \o <<",">> \o K_foo \o <<":", "x">>,
   K_foo \o <<":", "x", ":", "y">>,
   K_foo \o <<":", "x", ",">> \o K_foo \o <<":", "y">>,
   K_secure_boot \o <<":">>,
   C_malformed,
   K_foo,
   K_foo \o <<":", "x", ",">>}

MergerNodeProperties ==
  {OldProperties} \cup
  {Update(OldProperties, [k \in {"capabilities"} |-> c]) : c \in ExistingCapabilities}

\* what _create_supported_capabilities_dict hands over: allow-listed keys only
DiscoveredValues == {V_uefi, V_one, V_colon, V_comma, V_comma_pair}
DiscoveredDicts ==
  UNION {[S -> DiscoveredValues] : S \in SUBSET {K_BootMode, K_secure_boot}}

InitMerge ==
  /\ pc = "call_update_capabilities"
  /\ power = POWER_ON
  /\ power_turned_on = FALSE
  /\ driver_info = [k \in {"inspect_ports"} |-> S_none]
  /\ node_properties \in MergerNodeProperties
  /\ db_properties = node_properties
  /\ result = EmptyDict
  /\ macs_input_given = EmptyDict
  /\ remaining = {}
  /\ ports = {}
  /\ capabilities \in {PyDict(d) : d \in DiscoveredDicts}
  /\ calls = <<>>
  /\ outcome = Running
  /\ start = [properties |-> node_properties, ports |-> {}, power |-> POWER_ON]

\* lines 367-369, run once and then once more on the node it has updated
CallUpdateCapabilities ==
  /\ pc \in {"call_update_capabilities", "updated"}
  /\ \E merged \in _update_capabilities(node_properties, capabilities) :
       /\ outcome' = merged
       /\ calls' = Append(calls, Log("_update_capabilities",
                                     IF merged.status = "raised" THEN <<>> ELSE merged.value.s,
                                     IF merged.status = "raised" THEN merged.exc ELSE "ok"))
       /\ node_properties' =
            IF merged.status = "returned" /\ Truthy(merged.value)
            THEN Update(node_properties, [k \in {"capabilities"} |-> merged.value.s])
            ELSE node_properties
       /\ pc' = IF merged.status = "raised" THEN "update_failed"
                ELSE IF pc = "updated" THEN "updated_again" ELSE "updated"
  /\ UNCHANGED <<power, power_turned_on, driver_info, db_properties, result,
                 macs_input_given, remaining, ports, capabilities, start>>

SpecMerge == InitMerge /\ [][CallUpdateCapabilities]_vars

----------------------------------------------------------------------------
(* Properties *)

LastCall == calls[Len(calls)]
CallsOf(op) == SelectSeq(calls, LAMBDA c : c.op = op)
Done == pc = "done"
Returned == pc = "done" /\ outcome.status = "returned"
Failed == pc = "done" /\ outcome.status = "raised"

\* the essential values of a properties mapping are those the controller gave
EssentialsFrom(props, data) ==
  \A k \in ESSENTIAL_PROPERTIES_KEYS : k \in DOMAIN props /\ props[k] = data["properties"].d[k]

SameCapabilities(p, q) ==
  /\ ("capabilities" \in DOMAIN p) <=> ("capabilities" \in DOMAIN q)
  /\ "capabilities" \in DOMAIN p => p["capabilities"] = q["capabilities"]

FailedInCapabilities ==
  Failed /\ Len(calls) > 0 /\ LastCall.op = "get_server_capabilities"

\* C1 as the specification states it: whenever a run fails during capability
\* discovery or merging, the four essential properties have already been
\* saved on the node.
C1_SavedBeforeCapabilities ==
  FailedInCapabilities => EssentialsFrom(db_properties, result)

\* C1, amended: the essential properties are merged into the in-memory node
\* before the capability query, but the node is saved only after the
\* capability query and merge; a run that fails during capability discovery
\* or merging has made no save and the persisted properties are those from
\* before the run.
C1_SaveAfterCapabilities ==
  /\ \A i \in 1..Len(calls) :
       calls[i].op = "save" => \E j \in 1..(i-1) : calls[j].op = "get_server_capabilities"
  /\ (pc = "get_capabilities" \/ FailedInCapabilities) =>
       /\ EssentialsFrom(node_properties, result)
       /\ Len(CallsOf("save")) = 0
       /\ db_properties = start.properties

C1_Witness ==
  /\ FailedInCapabilities
  /\ outcome.exc = "ValueError"
  /\ "capabilities" \in DOMAIN start.properties
  /\ start.properties["capabilities"] = C_malformed
  /\ ~EssentialsFrom(db_properties, result)

\* C2: on a run that returns, the result is MANAGEABLE; if the power state
\* read at the start was not ON, exactly one power-on is issued, right after
\* the read and before the essential-properties query, and exactly one
\* power-off is issued as the last call, after port registration; if it was
\* ON no power action is issued.  A node that is OFF with selection "2" and
\* MACs {Port 1, Port 2} gets exactly one port, for the MAC of Port 2.
C2_PowerGuard ==
  Returned =>
    /\ outcome.value = MANAGEABLE
    /\ calls[1].op = "get_power_state"
    /\ IF start.power # POWER_ON
       THEN /\ Len(CallsOf("node_power_action")) = 2
            /\ calls[2] = Log("node_power_action", POWER_ON, "ok")
            /\ calls[3].op = "get_essential_properties"
            /\ LastCall = Log("node_power_action", POWER_OFF, "ok")
            /\ \A i \in 1..(Len(calls) - 1) :
                 calls[i].op \in {"create_port", "_get_macs_for_desired_ports", "save"}
                   => i > 3
            /\ power = POWER_OFF
       ELSE /\ Len(CallsOf("node_power_action")) = 0
            /\ power = POWER_ON
    /\ (/\ start.power = POWER_OFF
        /\ driver_info["inspect_ports"] = <<"2">>
        /\ result["macs"] = BothMacs)
       => /\ Len(CallsOf("create_port")) = 1
          /\ CallsOf("create_port")[1].arg = "bb:bb:bb:bb:bb:bb"

C2_Witness ==
  /\ Returned
  /\ start.power = POWER_OFF
  /\ driver_info["inspect_ports"] = <<"2">>
  /\ result["macs"] = BothMacs
  /\ "bb:bb:bb:bb:bb:bb" \in ports \ start.ports

\* C3: whenever the controller answers the capability query with a value
\* that is not a mapping, the run ends there with a fatal failure.
C3_NonMappingIsFatal ==
  capabilities.ty \in {"list", "str", "int"} => Failed

CapabilityQueryRaised ==
  \E i \in 1..Len(calls) : calls[i] = Log("get_server_capabilities", "", "IloError")

\* C4: when the capability query raises a controller error the run goes on:
\* the error does not end the run, the node's capabilities stay as they were
\* before the run, the essential properties are merged, and the run returns
\* MANAGEABLE with both saved unless a later step (save, port selection,
\* port creation, power-off) fails.
C4_CapabilityErrorSwallowed ==
  CapabilityQueryRaised =>
    /\ SameCapabilities(node_properties, start.properties)
    /\ EssentialsFrom(node_properties, result)
    /\ LastCall.op = "get_server_capabilities" => pc = "save" /\ outcome.status = "running"
    /\ Done =>
         \/ /\ outcome.status = "returned"
            /\ outcome.value = MANAGEABLE
            /\ EssentialsFrom(db_properties, result)
            /\ SameCapabilities(db_properties, start.properties)
         \/ /\ outcome.status = "raised"
            /\ LastCall.op \in {"save", "_get_macs_for_desired_ports", "create_port",
                                "node_power_action"}

C4_Witness ==
  /\ Returned
  /\ CapabilityQueryRaised
  /\ "capabilities" \in DOMAIN db_properties
  /\ db_properties["capabilities"] = C_wellformed
  /\ db_properties # start.properties

HasSelection == "inspect_ports" \in DOMAIN driver_info
Selection == driver_info["inspect_ports"]
SelectionTokens == split(Selection, ",")
IsPortList == \A i \in 1..Len(SelectionTokens) : isdigit(SelectionTokens[i])
RequestedPorts == {S_Port \o SelectionTokens[i] : i \in 1..Len(SelectionTokens)}
DiscoveredMacs == result["macs"].d
MissingPorts == RequestedPorts \ DOMAIN DiscoveredMacs
PolicyInvoked == Len(CallsOf("_get_macs_for_desired_ports")) > 0
SeqToSet(q) == {q[i] : i \in 1..Len(q)}

\* C5: when the port selection policy runs on a list of port numbers of
\* which at least one has no label "Port n" in the discovered MAC mapping,
\* the run fails with HardwareInspectionFailure, the failure lists exactly
\* the missing ports, all of them, no partial result is kept and no port
\* creation call is made.
C5_MissingPortsAreFatal ==
  (PolicyInvoked /\ lower(Selection) # S_all /\ MissingPorts # {}) =>
    /\ Failed
    /\ outcome.exc = "HardwareInspectionFailure"
    /\ outcome.msg = "Could not find requested ports"
    /\ SeqToSet(outcome.detail) = MissingPorts
    /\ macs_input_given = EmptyDict
    /\ Len(CallsOf("create_port")) = 0
    /\ ports = start.ports

C5_Witness ==
  /\ Failed
  /\ outcome.msg = "Could not find requested ports"
  /\ Len(outcome.detail) = 2
  /\ outcome.detail[1] # outcome.detail[2]
  /\ DOMAIN DiscoveredMacs # {}

\* C6: the port selection policy, applied to "all" in any letter case,
\* returns the full discovered MAC mapping; applied to a comma-separated
\* list of port numbers that all have a label in the mapping, it returns
\* the mapping restricted to the labels "Port n" of the listed numbers.
C6_SelectionResult ==
  (pc = "selected" /\ HasSelection) =>
    /\ lower(Selection) = S_all =>
         outcome.status = "returned" /\ outcome.value = PyDict(DiscoveredMacs)
    /\ (IsPortList /\ MissingPorts = {}) =>
         /\ outcome.status = "returned"
         /\ outcome.value = PyDict(Restrict(DiscoveredMacs, RequestedPorts))

C6_Witness ==
  /\ pc = "selected"
  /\ HasSelection
  /\ IsPortList
  /\ outcome.status = "returned"
  /\ DOMAIN outcome.value.d # {}
  /\ DOMAIN outcome.value.d # DOMAIN DiscoveredMacs

SelectionIsNone == HasSelection /\ lower(Selection) = S_none

\* C7: when the selection expression is "none" in any letter case, the run
\* never invokes the port selection policy, never calls port creation and
\* leaves the port store as it was.
C7_NoneRegistersNothing ==
  SelectionIsNone =>
    /\ ~PolicyInvoked
    /\ Len(CallsOf("create_port")) = 0
    /\ pc # "create_ports"
    /\ ports = start.ports

C7_Witness ==
  /\ Returned
  /\ Selection = <<"N","O","N","E">>
  /\ Cardinality(DOMAIN DiscoveredMacs) = 2

CreateCalls == CallsOf("create_port")

\* C8: a "MAC already exists" answer of the store does not end the run: the
\* loop goes on, so that once the loop is over port creation has been
\* attempted once for every selected MAC, and the run returns MANAGEABLE
\* unless a later call fails; any other store failure on port creation ends
\* the run with that failure.
C8_DuplicateTolerated ==
  /\ (Len(calls) > 0 /\ LastCall.op = "create_port") =>
       /\ LastCall.res = "MACAlreadyExists" =>
            /\ outcome.status # "raised"
            /\ pc = "create_ports" <=> remaining # {}
       /\ LastCall.res = "DBError" => Failed /\ outcome.exc = "DBError"
  /\ (PolicyInvoked /\ (pc = "power_off" \/ Returned)) =>
       /\ Len(CreateCalls) = Cardinality(DOMAIN macs_input_given)
       /\ {CreateCalls[i].arg : i \in 1..Len(CreateCalls)} =
            {macs_input_given[l] : l \in DOMAIN macs_input_given}
  /\ (Done /\ \E i \in 1..Len(calls) : calls[i].res = "MACAlreadyExists") =>
       \/ outcome.status = "returned" /\ outcome.value = MANAGEABLE
       \/ outcome.status = "raised" /\ LastCall.res \in {"DBError", "PowerStateFailure"}

C8_Witness ==
  /\ Returned
  /\ \E i, j \in 1..Len(calls) :
       /\ i < j
       /\ calls[i].op = "create_port" /\ calls[i].res = "MACAlreadyExists"
       /\ calls[j].op = "create_port" /\ calls[j].res = "ok"

\* C9: when reading the power state fails, the run ends at once with
\* IloOperationError: the read is the only call made, so there is no
\* controller query, no power action, no node save and no port creation.
C9_PowerReadFailureAborts ==
  (Len(calls) > 0 /\ calls[1].res = "IloOperationError") =>
    /\ Failed
    /\ outcome.exc = "IloOperationError"
    /\ Len(calls) = 1
    /\ ~power_turned_on
    /\ power = start.power
    /\ node_properties = start.properties
    /\ db_properties = start.properties
    /\ ports = start.ports

C9_Witness ==
  /\ Failed
  /\ outcome.exc = "IloOperationError"
  /\ start.power = POWER_OFF

PropertiesIsDict == "properties" \in DOMAIN result /\ IsDict(result["properties"])
PropertiesKeys == DOMAIN result["properties"].d
AbsentKeys == ESSENTIAL_PROPERTIES_KEYS \ PropertiesKeys
WithoutExtraKeys ==
  [result EXCEPT !["properties"] =
     PyDict(Restrict(result["properties"].d, ESSENTIAL_PROPERTIES_KEYS))]

\* C10 as the specification states it: whenever the properties mapping
\* lacks one or more of the four essential keys, validation fails and the
\* failure names exactly the absent keys; keys beyond the four never cause
\* a failure.
C10_AbsentKeysNamed ==
  (pc = "validated" /\ PropertiesIsDict) =>
    /\ AbsentKeys # {} =>
         /\ outcome.status = "raised"
         /\ outcome.msg = "Server didn't return the key(s)"
         /\ outcome.detail = AbsentKeys
    /\ AbsentKeys = {} => outcome = _validate(WithoutExtraKeys)

\* C10, amended: whenever the properties mapping is not empty and lacks one
\* or more of the four essential keys, validation fails and the failure
\* names exactly the absent keys; an empty mapping fails as an absent
\* 'properties' entry, naming no key; keys beyond the four never cause a
\* failure.
C10_AbsentKeysNamedUnlessEmpty ==
  (pc = "validated" /\ PropertiesIsDict) =>
    /\ (AbsentKeys # {} /\ PropertiesKeys # {}) =>
         /\ outcome.status = "raised"
         /\ outcome.msg = "Server didn't return the key(s)"
         /\ outcome.detail = AbsentKeys
    /\ PropertiesKeys = {} =>
         /\ outcome.status = "raised"
         /\ outcome.msg = "didn't return 'properties' as the key"
    /\ AbsentKeys = {} =>
         /\ outcome = _validate(WithoutExtraKeys)
         /\ outcome.status = "raised" =>
              outcome.msg \in {"macs not in dictionary format", "didn't return 'macs' as the key"}

C10_Witness ==
  /\ pc = "validated"
  /\ PropertiesIsDict
  /\ "extra" \in PropertiesKeys
  /\ outcome.msg = "Server didn't return the key(s)"
  /\ Cardinality(outcome.detail) = 2

\* the controller answered the essential-properties query with a payload
QueryAnswered ==
  \E i \in 1..Len(calls) : calls[i] = Log("get_essential_properties", "", "ok")

\* the payload lacks the entry, or the entry is not a mapping
ShapeIsWrong(key) == key \notin DOMAIN result \/ ~IsDict(result[key])

NoSaveNoPort ==
  /\ node_properties = start.properties
  /\ db_properties = start.properties
  /\ ports = start.ports
  /\ Len(CallsOf("save")) = 0
  /\ Len(CallsOf("create_port")) = 0

\* C11: whenever the controller's payload has no 'properties' entry or one
\* that is not a mapping (a list, a number), or has no 'macs' entry or one
\* that is not a mapping, the run ends at the validator with the fatal
\* inspection failure, and it has not modified or saved the node's
\* properties and has created no port.
C11_WrongShapeIsFatal ==
  (QueryAnswered /\ (ShapeIsWrong("properties") \/ ShapeIsWrong("macs"))) =>
    /\ Failed
    /\ outcome.exc = "HardwareInspectionFailure"
    /\ LastCall.op = "get_essential_properties"
    /\ NoSaveNoPort

C11_Witness ==
  /\ Failed
  /\ QueryAnswered
  /\ "properties" \in DOMAIN result
  /\ result["properties"] = GoodProperties
  /\ "macs" \in DOMAIN result
  /\ result["macs"].ty \in {"list", "int"}
  /\ outcome.msg = "macs not in dictionary format"
  /\ power_turned_on

\* a selection expression is a number list when it is made of digits and
\* commas only, with a digit at both ends and no two commas in a row
IsNumberList(s) ==
  /\ Len(s) > 0
  /\ \A i \in 1..Len(s) : s[i] = "," \/ \E j \in 1..10 : Digits[j] = s[i]
  /\ s[1] # "," /\ s[Len(s)] # ","
  /\ \A i \in 1..(Len(s) - 1) : ~(s[i] = "," /\ s[i+1] = ",")

\* "all" or "none" in any mix of upper and lower case
IsWord(s, word) ==
  /\ Len(s) = Len(word)
  /\ \A i \in 1..Len(s) :
       \/ s[i] = word[i]
       \/ \E j \in 1..26 : LowerCase[j] = word[i] /\ UpperCase[j] = s[i]

\* C12: with valid credentials the Config Validator fails exactly when the
\* selection expression is absent from driver_info (a missing parameter)
\* or is present but is neither "all" nor "none" in any case nor a
\* comma-separated list whose every token is all digits (an empty token,
\* as in "1,,2" or after a trailing comma, is rejected); it changes nothing
\* of the node.
C12_ConfigValidator ==
  pc = "config_validated" =>
    /\ IF ~HasSelection
       THEN outcome.status = "raised" /\ outcome.exc = "MissingParameterValue"
       ELSE IF IsWord(Selection, S_all) \/ IsWord(Selection, S_none) \/ IsNumberList(Selection)
            THEN outcome = Return(None)
            ELSE outcome.status = "raised" /\ outcome.exc = "InvalidParameterValue"
    /\ node_properties = start.properties
    /\ db_properties = start.properties
    /\ ports = start.ports
    /\ power = start.power

C12_Witness ==
  /\ pc = "config_validated"
  /\ HasSelection
  /\ Selection = <<"1", ",", ",", "2">>
  /\ outcome.exc = "InvalidParameterValue"

\* the tokens of a capability string; an absent or empty string has none
ExistingString ==
  IF "capabilities" \in DOMAIN start.properties THEN start.properties["capabilities"] ELSE <<>>
Tokens(s) == IF s = <<>> THEN <<>> ELSE split(s, ",")
HasChar(s, c) == \E i \in 1..Len(s) : s[i] = c
WellFormed(s) == \A i \in 1..Len(Tokens(s)) : HasChar(Tokens(s)[i], ":")

\* the capability set a well-formed string denotes
CapabilitySet(s) == DictOfPairs([i \in 1..Len(Tokens(s)) |-> split1(Tokens(s)[i], ":")])
TokenSet(s) == {Tokens(s)[i] : i \in 1..Len(Tokens(s))}

IsOverlay(merged, existing, discovered) ==
  /\ DOMAIN merged = DOMAIN existing \cup DOMAIN discovered
  /\ \A k \in DOMAIN discovered : merged[k] = discovered[k]
  /\ \A k \in DOMAIN existing \ DOMAIN discovered : merged[k] = existing[k]

MergedIsOverlay ==
  /\ calls[1].res = "ok"
  /\ WellFormed(calls[1].arg)
  /\ IsOverlay(CapabilitySet(calls[1].arg), CapabilitySet(ExistingString), capabilities.d)

NoCommaDiscovered == \A k \in DOMAIN capabilities.d : ~HasChar(capabilities.d[k], ",")

\* C13 as the specification states it: for every well-formed existing
\* capability string and every discovered mapping, the merged capability
\* set maps each existing key that is not discovered to its existing value
\* and each discovered key to the discovered value, and has no other key.
C13_Overlay ==
  (Len(calls) >= 1 /\ WellFormed(ExistingString)) => MergedIsOverlay

\* C13, amended: the overlay holds for every well-formed existing string and
\* every discovered mapping none of whose values contains a comma; values
\* are written without escaping, so a discovered value with a comma yields
\* a string that does not denote the overlay.
C13_OverlayWithoutCommas ==
  (Len(calls) >= 1 /\ WellFormed(ExistingString) /\ NoCommaDiscovered) => MergedIsOverlay

C13_Witness ==
  /\ pc = "updated"
  /\ ExistingString = K_BootMode \o <<":">> \o V_bios \o <<",">> \o K_foo \o <<":", "x">>
  /\ capabilities = PyDict([k \in {K_BootMode, K_secure_boot} |->
                              IF k = K_BootMode THEN V_uefi ELSE V_colon])
  /\ CapabilitySet(calls[1].arg)[K_BootMode] = V_uefi
  /\ CapabilitySet(calls[1].arg)[K_foo] = <<"x">>

\* the controller answered the capability query with a non-empty mapping,
\* so the run has reached the merge of lines 366-367
MergeReached ==
  /\ \E i \in 1..Len(calls) : calls[i] = Log("get_server_capabilities", "", "ok")
  /\ IsDict(capabilities)
  /\ Truthy(capabilities)

\* C14: whenever the merge is reached on a node whose existing capabilities
\* string has a token without a colon, the run ends there with the fatal
\* invalid-parameter failure, and the stored capabilities value is the one
\* from before the run.
C14_MalformedIsInvalidParameter ==
  (MergeReached /\ ~WellFormed(ExistingString)) =>
    /\ Failed
    /\ LastCall.op = "get_server_capabilities"
    /\ outcome.exc = "InvalidParameterValue"
    /\ SameCapabilities(db_properties, start.properties)

\* C15 as the specification states it: merging a discovered mapping, storing
\* the result and merging the same mapping again succeeds and yields the
\* same key:value content as the first merge.
C15_Idempotent ==
  Len(calls) = 2 =>
    /\ calls[2].res = "ok"
    /\ TokenSet(calls[2].arg) = TokenSet(calls[1].arg)

\* C15, amended: the second merge yields the content of the first for every
\* discovered mapping none of whose values contains a comma; a value with a
\* comma is stored unescaped, and the second merge then reads it back as
\* several tokens and fails or yields a different set.
C15_IdempotentWithoutCommas ==
  (Len(calls) = 2 /\ NoCommaDiscovered) =>
    /\ calls[2].res = "ok"
    /\ TokenSet(calls[2].arg) = TokenSet(calls[1].arg)
    /\ CapabilitySet(calls[2].arg) = CapabilitySet(calls[1].arg)

C15_Witness ==
  /\ pc = "updated_again"
  /\ ExistingString = K_BootMode \o <<":">> \o V_bios \o <<",">> \o K_foo \o <<":", "x">>
  /\ capabilities = PyDict([k \in {K_BootMode, K_secure_boot} |->
                              IF k = K_BootMode THEN V_uefi ELSE V_colon])
  /\ TokenSet(calls[2].arg) =
       {K_BootMode \o <<":">> \o V_uefi, K_secure_boot \o <<":">> \o V_colon, K_foo \o <<":", "x">>}

\* C16: whenever the run has turned the power on and then raises in a step
\* after the power-on (the essential-properties query, its validation, the
\* property merge, the capability step, the save, or port registration),
\* the run ends there: the only power action issued is the power-on, no
\* power-off is issued, and the machine is left powered on.
C16_LeftPoweredOn ==
  (outcome.status = "raised" /\ power_turned_on /\ LastCall.op # "node_power_action") =>
    /\ pc = "done"
    /\ power = POWER_ON
    /\ CallsOf("node_power_action") = <<Log("node_power_action", POWER_ON, "ok")>>

C16_Witness ==
  /\ Failed
  /\ power_turned_on
  /\ start.power = POWER_OFF
  /\ LastCall.op = "create_port"
  /\ power = POWER_ON

NotEssential(props) == DOMAIN props \ (ESSENTIAL_PROPERTIES_KEYS \cup {"capabilities"})

\* C17: on a run that returns, the node's four essential properties, in
\* memory and as saved, have the controller's values; a key the controller
\* returned beyond those four is not copied; and every other property the
\* node had before the run, apart from 'capabilities', has its prior value.
C17_OnlyEssentialsOverwritten ==
  Returned =>
    /\ EssentialsFrom(node_properties, result)
    /\ EssentialsFrom(db_properties, result)
    /\ NotEssential(node_properties) = NotEssential(start.properties)
    /\ NotEssential(db_properties) = NotEssential(start.properties)
    /\ \A k \in NotEssential(start.properties) :
         node_properties[k] = start.properties[k] /\ db_properties[k] = start.properties[k]

C17_Witness ==
  /\ Returned
  /\ result["properties"] = ExtraProperties
  /\ "extra" \notin DOMAIN db_properties
  /\ db_properties["other"] = "kept"
  /\ db_properties["memory_mb"] = "4096"
  /\ start.properties["memory_mb"] = "512"

SavedString ==
  IF "capabilities" \in DOMAIN db_properties THEN db_properties["capabilities"] ELSE <<>>

\* the names the controller's capability answer offers
DiscoveredNames == IterItems(capabilities)

OnlyAllowedKeys ==
    /\ WellFormed(SavedString)
    /\ DOMAIN CapabilitySet(SavedString)
         \subseteq (DOMAIN CapabilitySet(ExistingString) \cup CAPABILITIES_KEYS)
    /\ \A name \in DiscoveredNames \ CAPABILITIES_KEYS :
         name \in DOMAIN CapabilitySet(SavedString) =>
           /\ name \in DOMAIN CapabilitySet(ExistingString)
           /\ CapabilitySet(SavedString)[name] = CapabilitySet(ExistingString)[name]

NoCommaInAnswer ==
  IsDict(capabilities) => \A k \in DOMAIN capabilities.d : ~HasChar(capabilities.d[k], ",")

\* C18 as the specification states it: on a run that returns from a node
\* whose capability string was well-formed, every key of the saved
\* capability set is a key of the string from before the run or a name of
\* CAPABILITIES_KEYS, and a discovered name outside CAPABILITIES_KEYS is in
\* the saved set only if it was there before the run, with the value it
\* had then.
C18_AllowList ==
  (Returned /\ WellFormed(ExistingString)) => OnlyAllowedKeys

\* C18, amended: the same holds on every such run in which no discovered
\* value contains a comma; a value of an allow-listed name that contains
\* ",name:value" is written unescaped and reads back as a further key.
C18_AllowListWithoutCommas ==
  (Returned /\ WellFormed(ExistingString) /\ NoCommaInAnswer) => OnlyAllowedKeys

C18_Witness ==
  /\ Returned
  /\ ExistingString = C_wellformed
  /\ IsDict(capabilities)
  /\ DOMAIN capabilities.d = {K_BootMode, K_foo}
  /\ capabilities.d[K_foo] = <<"1">>
  /\ CapabilitySet(SavedString) =
       [k \in {K_BootMode, K_foo} |-> IF k = K_foo THEN <<"x">> ELSE V_uefi]

IsPortStep(op) == op \in {"_get_macs_for_desired_ports", "create_port"}
FailedInPortRegistration == Failed /\ IsPortStep(LastCall.op)
CreatedPorts ==
  {calls[i].arg : i \in {j \in 1..Len(calls) : calls[j].op = "create_port" /\ calls[j].res = "ok"}}

\* C19: the node is saved at most once in a run, and before the selection
\* policy or any port creation is called; whenever a run fails in port
\* registration (a selection that cannot be satisfied, or a store error
\* other than a duplicate MAC), the saved properties are the merged ones
\* with the controller's essential values, and the port store holds every
\* port created earlier in the run besides those it had.
C19_SavedBeforePorts ==
  /\ Len(CallsOf("save")) <= 1
  /\ \A i \in 1..Len(calls) :
       IsPortStep(calls[i].op) => \E j \in 1..(i-1) : calls[j] = Log("save", "", "ok")
  /\ FailedInPortRegistration =>
       /\ db_properties = node_properties
       /\ EssentialsFrom(db_properties, result)
       /\ ports = start.ports \cup CreatedPorts

C19_Witness ==
  /\ FailedInPortRegistration
  /\ LastCall = Log("create_port", "bb:bb:bb:bb:bb:bb", "DBError")
  /\ CreatedPorts = {"aa:aa:aa:aa:aa:aa"}
  /\ "aa:aa:aa:aa:aa:aa" \in ports \ start.ports
  /\ "capabilities" \in DOMAIN db_properties
  /\ "capabilities" \notin DOMAIN start.properties
  /\ db_properties["memory_mb"] = "4096"

IsEmptyMapping(key) == key \in DOMAIN result /\ result[key] = PyDict(EmptyDict)
WithoutKey(key) == Restrict(result, DOMAIN result \ {key})

\* C20: whenever the controller's payload has an empty 'macs' mapping, or an
\* empty 'properties' mapping, the validator fails exactly as it does for
\* the payload without that key, with the message that the key was not
\* returned; the run ends there, whatever the selection expression, with
\* nothing of the node modified or saved and no port created.
C20_EmptyIsAbsent ==
  /\ (QueryAnswered /\ IsEmptyMapping("properties")) =>
       /\ Failed
       /\ outcome = _validate(WithoutKey("properties"))
       /\ outcome.msg = "didn't return 'properties' as the key"
       /\ NoSaveNoPort
  /\ (QueryAnswered /\ IsEmptyMapping("macs")) =>
       /\ Failed
       /\ outcome = _validate(WithoutKey("macs"))
       /\ PropertiesIsDict /\ AbsentKeys = {} => outcome.msg = "didn't return 'macs' as the key"
       /\ NoSaveNoPort

C20_Witness ==
  /\ Failed
  /\ QueryAnswered
  /\ IsEmptyMapping("macs")
  /\ SelectionIsNone
  /\ "properties" \in DOMAIN result
  /\ result["properties"] = GoodProperties
  /\ outcome.msg = "didn't return 'macs' as the key"

====
